---- MODULE Spec2Model ----
(***************************************************************************)
(* Model of the booking-and-commerce backend (main.py, schemas.py).        *)
(*                                                                         *)
(* The three MongoDB collections the handlers use ("appointment", "user",  *)
(* "order") are sequences of documents in insertion order.  Every handler  *)
(* is a FastAPI `def` endpoint, so requests run on a thread pool and may   *)
(* interleave between two calls on the store.  A handler that makes one    *)
(* call on the store is one action; a handler that reads and then writes   *)
(* (create_appointment, register) is two actions, one per call on the      *)
(* store, with the Python code between the calls attached to the first.    *)
(***************************************************************************)
EXTENDS Integers, Sequences, FiniteSets, TLC

(* ---------------------------------------------------------------- bounds *)

\* Documents the three collections may hold together (counting the inserts
\* already decided on by requests in flight).
MaxDocs == 2

\* Longest item list of a checkout request.
MaxItems == 2

\* The worker threads that serve the read-then-write requests.
Clients == {"c1", "c2"}

(* ---------------------------------------------------------------- inputs *)

\* Python's None.
None == "<None>"

UserIds == {"u1", "u2"}

\* start_time_iso is an opaque string: two instants one second apart and a
\* string that is no timestamp at all.
StartTimes == {"2024-01-01T10:00:00", "2024-01-01T10:00:01", "tomorrow-10am"}

\* The other four fields of a booking: one choice, and that choice with
\* another user, another service, another duration.
BookingDetails ==
    {[user_id |-> "u1", service_id |-> "s1",
      service_title |-> "Behavior Consultation", duration_minutes |-> 60],
     [user_id |-> "u2", service_id |-> "s1",
      service_title |-> "Behavior Consultation", duration_minutes |-> 60],
     [user_id |-> "u1", service_id |-> "s2",
      service_title |-> "Therapy Session", duration_minutes |-> 60],
     [user_id |-> "u1", service_id |-> "s1",
      service_title |-> "Behavior Consultation", duration_minutes |-> 45]}

CreateAppointmentRequest ==
    {[user_id |-> d.user_id, service_id |-> d.service_id,
      service_title |-> d.service_title, start_time_iso |-> t,
      duration_minutes |-> d.duration_minutes] : d \in BookingDetails, t \in StartTimes}

\* A Python str as the sequence of its characters, where the code looks
\* inside the string (the e-mail address of a User).
EmailLower == <<"a", "@", "b", ".", "c", "o">>
EmailUpperDomain == <<"a", "@", "B", ".", "c", "o">>
EmailNoAt == <<"a", "b", ".", "c", "o">>
Emails == {EmailLower, EmailUpperDomain, EmailNoAt}

Names == {"Ann"}
Passwords == {"pw1", "pw2"}

RegisterRequest == [name : Names, email : Emails, password : {"pw1"}]
LoginRequest == [email : Emails \ {EmailNoAt}, password : Passwords]

\* The two seeded services, one of them bought twice.
OrderItem ==
    {[service_id |-> "s1", service_title |-> "Behavior Consultation",
      quantity |-> 1, price_cents |-> 15000],
     [service_id |-> "s2", service_title |-> "Therapy Session",
      quantity |-> 2, price_cents |-> 9000]}

SeqsUpTo(S, n) == UNION {[1..k -> S] : k \in 0..n}

CheckoutRequest == [user_id : {"u1"}, items : SeqsUpTo(OrderItem, MaxItems)]

\* The user_id query parameter of GET /api/appointments: absent, empty, or a
\* user id.
ListAppointmentsArgs == {None, ""} \cup UserIds

(* ----------------------------------------------------------------- state *)

VARIABLES
    appointment,   \* db["appointment"]
    user,          \* db["user"]
    order,         \* db["order"]
    pc,            \* per client: "idle", or "insert" between the two store calls
    handler,       \* per client: the endpoint being served
    req,           \* per client: the request body
    doc,           \* per client: the model object built before the insert
    out            \* the response sent last: endpoint, arguments, response
                   \* and the calls the request made on the store

vars == <<appointment, user, order, pc, handler, req, doc, out>>

(* --------------------------------------------------------------- storage *)

\* A MongoDB query document matches a stored document when every key of the
\* query is a field of the document with an equal value.
Matches(d, filt) == \A k \in DOMAIN filt : k \in DOMAIN d /\ d[k] = filt[k]

SelectSeq2(s, filt) == SelectSeq(s, LAMBDA d : Matches(d, filt))

\* collection.find_one(filt): the first matching document or None, as a
\* sequence of one document or of none (so that `if existing:` is a test
\* for the empty sequence).
find_one(coll, filt) ==
    IF SelectSeq2(coll, filt) = <<>> THEN <<>> ELSE <<Head(SelectSeq2(coll, filt))>>

\* The ObjectId the store generates for the next document of a collection.
NewObjectId(coll) == Len(coll) + 1

\* str(ObjectId)
ObjectIdStr(oid) == ToString(oid)

\* create_document(collection, model): the collection with the model's fields
\* inserted under a fresh _id.
create_document(coll, data) ==
    Append(coll, [k \in DOMAIN data \cup {"_id"} |->
                     IF k = "_id" THEN NewObjectId(coll) ELSE data[k]])

\* get_documents(collection, filt): the matching documents, in store order.
get_documents(coll, filt) == SelectSeq2(coll, filt)

\* to_public(doc): _id is replaced by id = str(_id).
to_public(d) ==
    IF "_id" \in DOMAIN d
    THEN [k \in (DOMAIN d \ {"_id"}) \cup {"id"} |->
             IF k = "id" THEN ObjectIdStr(d["_id"]) ELSE d[k]]
    ELSE d

\* [to_public(d) for d in docs]
PublicDocs(docs) == [i \in 1..Len(docs) |-> to_public(docs[i])]

(* --------------------------------------------------------------- schemas *)

\* A slip in the keyword arguments: the two service fields change places.
Appointment_SwapsService(r) ==
    [user_id |-> r.user_id,
     service_id |-> r.service_title,
     service_title |-> r.service_id,
     start_time_iso |-> r.start_time_iso,
     duration_minutes |-> r.duration_minutes,
     status |-> "scheduled",
     order_id |-> None]

\* Appointment(...): the request's five fields and the two defaults.
Appointment(r) ==
    [user_id |-> r.user_id,
     service_id |-> r.service_id,
     service_title |-> r.service_title,
     start_time_iso |-> r.start_time_iso,
     duration_minutes |-> r.duration_minutes,
     status |-> "scheduled",
     order_id |-> None]

\* EmailStr: the address must have one "@" with a local part before it and a
\* dotted domain after it; the validated value has its domain in lower case.
AtPositions(s) == {i \in 1..Len(s) : s[i] = "@"}

AtPosition(s) == CHOOSE i \in AtPositions(s) : TRUE

IsEmail(s) ==
    /\ Cardinality(AtPositions(s)) = 1
    /\ AtPosition(s) > 1
    /\ \E i \in (AtPosition(s) + 2)..(Len(s) - 1) : s[i] = "."

LowerChar(ch) ==
    CASE ch = "A" -> "a"
      [] ch = "B" -> "b"
      [] ch = "C" -> "c"
      [] ch = "O" -> "o"
      [] OTHER -> ch

EmailStr(s) == [i \in 1..Len(s) |-> IF i > AtPosition(s) THEN LowerChar(s[i]) ELSE s[i]]

\* User(name=, email=, hashed_password=): is_active defaults to True.
User(r) ==
    [name |-> r.name,
     email |-> EmailStr(r.email),
     hashed_password |-> r.password,
     is_active |-> TRUE]

RECURSIVE Sum_IgnoresQuantity(_)
\* A slip in the generator: the quantity is left out.
Sum_IgnoresQuantity(items) ==
    IF items = <<>> THEN 0
    ELSE Head(items).price_cents + Sum_IgnoresQuantity(Tail(items))

RECURSIVE Sum(_)
\* sum(item.price_cents * item.quantity for item in items)
Sum(items) ==
    IF items = <<>> THEN 0
    ELSE Head(items).price_cents * Head(items).quantity + Sum(Tail(items))

\* Order(user_id=, items=, amount_cents=): the other four fields default.
Order(r, amount) ==
    [user_id |-> r.user_id,
     items |-> r.items,
     amount_cents |-> amount,
     status |-> "pending",
     stripe_session_id |-> None,
     stripe_payment_intent |-> None,
     paid_at |-> None]

(* ------------------------------------------------------------- responses *)

HTTPException(code, text) == [status |-> code, detail |-> text]

\* An exception no handler catches: FastAPI answers 500.
ServerError == [status |-> 500, detail |-> "Internal Server Error"]

Ok(payload) == [status |-> 200, body |-> payload]

\* Before the first response: no endpoint, no arguments, no status.
NoRequest == [endpoint |-> None]
NoResponse == [status |-> 0]

Sent(endpoint, args, response, storeCalls) ==
    [op |-> endpoint, args |-> args, resp |-> response, calls |-> storeCalls]

\* Room for one more document (see MaxDocs).
Room ==
    Len(appointment) + Len(user) + Len(order)
        + Cardinality({c \in Clients : pc[c] = "insert"}) < MaxDocs

Idle(c) == pc[c] = "idle"

Begin(c, endpoint, r, model) ==
    /\ pc' = [pc EXCEPT ![c] = "insert"]
    /\ handler' = [handler EXCEPT ![c] = endpoint]
    /\ req' = [req EXCEPT ![c] = r]
    /\ doc' = [doc EXCEPT ![c] = model]

Return(c) ==
    /\ pc' = [pc EXCEPT ![c] = "idle"]
    /\ handler' = [handler EXCEPT ![c] = None]
    /\ req' = [req EXCEPT ![c] = None]
    /\ doc' = [doc EXCEPT ![c] = None]

(* ------------------------------------------------------------------ Init *)

Init ==
    /\ appointment = <<>>
    /\ user = <<>>
    /\ order = <<>>
    /\ pc = [c \in Clients |-> "idle"]
    /\ handler = [c \in Clients |-> None]
    /\ req = [c \in Clients |-> None]
    /\ doc = [c \in Clients |-> None]
    /\ out = Sent(None, NoRequest, NoResponse, <<>>)

(* --------------------------------------------------- POST /api/appointments *)

\* A clash check that also asks for the same user.
ConflictFilter_ByUser(r) == [start_time_iso |-> r.start_time_iso, user_id |-> r.user_id]

\* A clash check that also asks for the same service.
ConflictFilter_ByService(r) ==
    [start_time_iso |-> r.start_time_iso, service_id |-> r.service_id]

\* The query of the clash check.
ConflictFilter(r) == [start_time_iso |-> r.start_time_iso]

\* The handler without its `raise`: a taken slot is booked all the same.
create_appointment_check_NoRaise(c, r) ==
    /\ Idle(c)
    /\ Room
    /\ Begin(c, "create_appointment", r, Appointment(r))
    /\ out' = out
    /\ UNCHANGED <<appointment, user, order>>

\* find_one, the test of its result, and the Appointment built when the slot
\* is free.
create_appointment_check(c, r) ==
    /\ Idle(c)
    /\ IF find_one(appointment, ConflictFilter(r)) # <<>>
       THEN /\ out' = Sent("create_appointment", r,
                           HTTPException(400, "Time slot already booked"),
                           <<"appointment.find_one">>)
            /\ UNCHANGED <<pc, handler, req, doc>>
       ELSE /\ Room
            /\ Begin(c, "create_appointment", r, Appointment(r))
            /\ out' = out
    /\ UNCHANGED <<appointment, user, order>>

\* An insert that holds the slot as a unique key: the store refuses the
\* second document of a slot.
create_appointment_create_IfAbsent(c) ==
    /\ pc[c] = "insert"
    /\ handler[c] = "create_appointment"
    /\ IF find_one(appointment, [start_time_iso |-> doc[c].start_time_iso]) # <<>>
       THEN /\ appointment' = appointment
            /\ out' = Sent("create_appointment", req[c],
                           HTTPException(400, "Time slot already booked"),
                           <<"appointment.find_one", "appointment.insert_one">>)
       ELSE /\ appointment' = create_document(appointment, doc[c])
            /\ out' = Sent("create_appointment", req[c],
                           Ok([id |-> ObjectIdStr(NewObjectId(appointment))]),
                           <<"appointment.find_one", "appointment.insert_one">>)
    /\ Return(c)
    /\ UNCHANGED <<user, order>>

\* An insert that is tried again after it went through.
create_appointment_create_Retry(c) ==
    /\ pc[c] = "insert"
    /\ handler[c] = "create_appointment"
    /\ appointment' = create_document(create_document(appointment, doc[c]), doc[c])
    /\ out' = Sent("create_appointment", req[c],
                   Ok([id |-> ObjectIdStr(NewObjectId(appointment) + 1)]),
                   <<"appointment.find_one", "appointment.insert_one",
                     "appointment.insert_one">>)
    /\ Return(c)
    /\ UNCHANGED <<user, order>>

\* create_document("appointment", appt) and the response.
create_appointment_create(c) ==
    /\ pc[c] = "insert"
    /\ handler[c] = "create_appointment"
    /\ appointment' = create_document(appointment, doc[c])
    /\ out' = Sent("create_appointment", req[c],
                   Ok([id |-> ObjectIdStr(NewObjectId(appointment))]),
                   <<"appointment.find_one", "appointment.insert_one">>)
    /\ Return(c)
    /\ UNCHANGED <<user, order>>

(* ------------------------------------------------------ POST /api/register *)

ExistingFilter(r) == [email |-> r.email]

\* find_one, the test of its result, and the User built (and validated) when
\* the address is not yet there.
register_check(c, r) ==
    /\ Idle(c)
    /\ IF find_one(user, ExistingFilter(r)) # <<>>
       THEN /\ out' = Sent("register", r,
                           HTTPException(400, "Email already registered"),
                           <<"user.find_one">>)
            /\ UNCHANGED <<pc, handler, req, doc>>
       ELSE IF ~IsEmail(r.email)
       THEN /\ out' = Sent("register", r, ServerError, <<"user.find_one">>)
            /\ UNCHANGED <<pc, handler, req, doc>>
       ELSE /\ Room
            /\ Begin(c, "register", r, User(r))
            /\ out' = out
    /\ UNCHANGED <<appointment, user, order>>

\* create_document("user", user) and the response.
register_create(c) ==
    /\ pc[c] = "insert"
    /\ handler[c] = "register"
    /\ user' = create_document(user, doc[c])
    /\ out' = Sent("register", req[c],
                   Ok([id |-> ObjectIdStr(NewObjectId(user)),
                       name |-> req[c].name, email |-> req[c].email]),
                   <<"user.find_one", "user.insert_one">>)
    /\ Return(c)
    /\ UNCHANGED <<appointment, order>>

(* --------------------------------------------------------- POST /api/login *)

LoginFilter(r) == [email |-> r.email, hashed_password |-> r.password]

LoginResponse(found) ==
    IF found = <<>>
    THEN HTTPException(401, "Invalid credentials")
    ELSE Ok([id |-> ObjectIdStr(found[1]["_id"]),
             name |-> found[1].name, email |-> found[1].email])

login(r) ==
    /\ out' = Sent("login", r, LoginResponse(find_one(user, LoginFilter(r))),
                   <<"user.find_one">>)
    /\ UNCHANGED <<appointment, user, order, pc, handler, req, doc>>

(* --------------------------------------------------- GET /api/appointments *)

\* `if user_id`: None and the empty string are false.
Truthy(x) == x # None /\ x # ""

\* filt = {"user_id": user_id} if user_id else {}
ListFilter(user_id) ==
    IF Truthy(user_id) THEN [k \in {"user_id"} |-> user_id] ELSE <<>>

list_appointments(user_id) ==
    /\ out' = Sent("list_appointments", [user_id |-> user_id],
                   Ok(PublicDocs(get_documents(appointment, ListFilter(user_id)))),
                   <<"appointment.find">>)
    /\ UNCHANGED <<appointment, user, order, pc, handler, req, doc>>

(* ------------------------------------------------------ POST /api/checkout *)

\* A checkout that marks the buyer's appointments with the new order.
create_checkout_LinksAppointments(r) ==
    /\ Room
    /\ order' = create_document(order, Order(r, Sum(r.items)))
    /\ appointment' =
           [i \in 1..Len(appointment) |->
               IF appointment[i].user_id = r.user_id
               THEN [appointment[i] EXCEPT !.order_id = ObjectIdStr(NewObjectId(order))]
               ELSE appointment[i]]
    /\ out' = Sent("create_checkout", r,
                   Ok([order_id |-> ObjectIdStr(NewObjectId(order)),
                       amount_cents |-> Sum(r.items),
                       stripe_checkout_url |-> None]),
                   <<"order.insert_one">>)
    /\ UNCHANGED <<user, pc, handler, req, doc>>

\* Order, create_document("order", order) and the response.
create_checkout(r) ==
    /\ Room
    /\ order' = create_document(order, Order(r, Sum(r.items)))
    /\ out' = Sent("create_checkout", r,
                   Ok([order_id |-> ObjectIdStr(NewObjectId(order)),
                       amount_cents |-> Sum(r.items),
                       stripe_checkout_url |-> None]),
                   <<"order.insert_one">>)
    /\ UNCHANGED <<appointment, user, pc, handler, req, doc>>

(* --------------------------------------------------------- GET /api/orders *)

list_orders(user_id) ==
    /\ out' = Sent("list_orders", [user_id |-> user_id],
                   Ok(PublicDocs(get_documents(order, [k \in {"user_id"} |-> user_id]))),
                   <<"order.find">>)
    /\ UNCHANGED <<appointment, user, order, pc, handler, req, doc>>

(* -------------------------------------------------------- specifications *)

BookCheck == \E c \in Clients : \E r \in CreateAppointmentRequest : create_appointment_check(c, r)
BookCreate == \E c \in Clients : create_appointment_create(c)
RegisterCheck == \E c \in Clients : \E r \in RegisterRequest : register_check(c, r)
RegisterCreate == \E c \in Clients : register_create(c)
Login == \E r \in LoginRequest : login(r)
ListAppointments == \E u \in ListAppointmentsArgs : list_appointments(u)
Checkout == \E r \in CheckoutRequest : create_checkout(r)
ListOrders == \E u \in UserIds : list_orders(u)

\* Requests interleave freely between their calls on the store.
Next ==
    \/ BookCheck
    \/ BookCreate
    \/ RegisterCheck
    \/ RegisterCreate
    \/ Login
    \/ ListAppointments
    \/ Checkout
    \/ ListOrders

Spec == Init /\ [][Next]_vars

\* No request is between its two calls on the store.
NoneInFlight == \A c \in Clients : pc[c] # "insert"

\* Requests run one at a time: a request starts only when no other is in
\* flight.
NextSerial ==
    \/ NoneInFlight /\ BookCheck
    \/ BookCreate
    \/ NoneInFlight /\ RegisterCheck
    \/ RegisterCreate
    \/ NoneInFlight /\ Login
    \/ NoneInFlight /\ ListAppointments
    \/ NoneInFlight /\ Checkout
    \/ NoneInFlight /\ ListOrders

SpecSerial == Init /\ [][NextSerial]_vars

(* ---------------------------------------------------------------- claims *)

Slots(coll) == 1..Len(coll)

\* Some stored appointment has exactly this start_time_iso.
SlotTaken(t) == \E i \in Slots(appointment) : appointment[i].start_time_iso = t

\* The last response is this endpoint's, with this status.
Answered(endpoint, code) == out.op = endpoint /\ out.resp.status = code

RequestFields == {"user_id", "service_id", "service_title", "start_time_iso", "duration_minutes"}

\* The stored document carries the five fields of the request unchanged.
Verbatim(d, r) == \A f \in RequestFields : d[f] = r[f]

\* C1: when booking requests run one at a time, no two stored appointments
\* have the same start_time_iso, whatever the sequence of requests.
C1_SerialAtMostOnePerSlot ==
    \A i, j \in Slots(appointment) :
        appointment[i].start_time_iso = appointment[j].start_time_iso => i = j

\* Two slots are booked and a third request, for a booked slot, was refused.
C1_Witness ==
    /\ Len(appointment) = 2
    /\ Answered("create_appointment", 400)
    /\ SlotTaken(out.args.start_time_iso)

\* The request of c has passed the clash check and its slot is wanted twice:
\* another request that passed the check holds the same slot, or has already
\* stored it.
PassedCheckTwice(c) ==
    /\ pc[c] = "insert"
    /\ handler[c] = "create_appointment"
    /\ \/ \E d \in Clients \ {c} :
            /\ pc[d] = "insert"
            /\ handler[d] = "create_appointment"
            /\ req[d].start_time_iso = req[c].start_time_iso
       \/ SlotTaken(req[c].start_time_iso)

\* C2: two booking requests for one start_time_iso that both read before
\* either inserts both insert and both return an id: the insert of a request
\* that has passed the check adds its appointment and answers 200 with the
\* new id, also when the slot has been stored in the meantime.
C2_RaceBothInsert ==
    [][\A c \in Clients :
          (PassedCheckTwice(c) /\ pc'[c] = "idle") =>
              /\ Len(appointment') = Len(appointment) + 1
              /\ appointment'[Len(appointment')].start_time_iso = req[c].start_time_iso
              /\ out'.op = "create_appointment"
              /\ out'.resp.status = 200
              /\ out'.resp.body.id = ObjectIdStr(appointment'[Len(appointment')]["_id"])]_vars

\* Two stored appointments share their start_time_iso and the second request
\* was answered with its id.
C2_Witness ==
    /\ \E i, j \in Slots(appointment) :
          /\ i < j
          /\ appointment[i].start_time_iso = appointment[j].start_time_iso
          /\ Answered("create_appointment", 200)
          /\ out.resp.body.id = ObjectIdStr(appointment[j]["_id"])

\* The step answers a booking request with the conflict error.
Refuses == out' # out /\ out'.op = "create_appointment" /\ out'.resp.status = 400

\* The step lets the booking request of c pass the clash check.
Admits(c) == pc[c] = "idle" /\ pc'[c] = "insert" /\ handler'[c] = "create_appointment"

\* The step is the insert of the booking request of c.
Inserts(c) == pc[c] = "insert" /\ handler[c] = "create_appointment" /\ pc'[c] = "idle"

\* C3: a booking request for a start_time_iso that is stored at the time of
\* its read does not pass the check: it is answered 400 "Time slot already
\* booked", and that answer changes nothing in the store and leaves no
\* insert pending.
C3_ConflictLeavesStore ==
    [][/\ \A c \in Clients : Admits(c) => ~SlotTaken(req'[c].start_time_iso)
       /\ Refuses =>
             /\ out'.resp = [status |-> 400, detail |-> "Time slot already booked"]
             /\ appointment' = appointment
             /\ user' = user
             /\ order' = order
             /\ pc' = pc]_vars

\* One appointment is stored, the same string was asked for again and
\* refused, and one appointment is stored still.
C3_Witness ==
    /\ Len(appointment) = 1
    /\ \A c \in Clients : pc[c] = "idle"
    /\ Answered("create_appointment", 400)
    /\ out.args.start_time_iso = appointment[1].start_time_iso

\* C4: a booking request is refused exactly when some stored appointment has
\* the same start_time_iso string, whatever the other fields of the request
\* and of the stored appointments: a refused request finds its string among
\* the stored ones, an admitted request does not, also when an appointment
\* that differs only in its start_time_iso is stored.
C4_OutcomeBySlotOnly ==
    [][/\ Refuses => SlotTaken(out'.args.start_time_iso)
       /\ \A c \in Clients :
             Admits(c) =>
                 \A i \in Slots(appointment) :
                     appointment[i].start_time_iso # req'[c].start_time_iso]_vars

\* Two appointments of the same user and service are stored one second
\* apart, the first of them sixty minutes long.
C4_Witness ==
    /\ Len(appointment) = 2
    /\ appointment[1].start_time_iso = "2024-01-01T10:00:00"
    /\ appointment[2].start_time_iso = "2024-01-01T10:00:01"
    /\ appointment[1].duration_minutes = 60
    /\ appointment[1].user_id = appointment[2].user_id
    /\ appointment[1].service_id = appointment[2].service_id
    /\ Answered("create_appointment", 200)

\* C5: every stored appointment has status "scheduled", no order_id, and the
\* five fields of a request as they were sent; the appointment whose id a
\* booking returned carries that request's fields.
C5_StoredAsRequested ==
    /\ \A i \in Slots(appointment) :
          /\ appointment[i].status = "scheduled"
          /\ appointment[i].order_id = None
          /\ DOMAIN appointment[i] = RequestFields \cup {"_id", "status", "order_id"}
          /\ \E r \in CreateAppointmentRequest : Verbatim(appointment[i], r)
    /\ Answered("create_appointment", 200) =>
          \E i \in Slots(appointment) :
              /\ ObjectIdStr(appointment[i]["_id"]) = out.resp.body.id
              /\ Verbatim(appointment[i], out.args)

\* A booking whose start_time_iso is no timestamp was answered with its id.
C5_Witness ==
    /\ Answered("create_appointment", 200)
    /\ out.args.start_time_iso = "tomorrow-10am"
    /\ out.args.service_id = "s2"
    /\ SlotTaken("tomorrow-10am")

\* The stored appointments of one user, as the listing shows them.
OfUser(u) == PublicDocs(SelectSeq(appointment, LAMBDA d : d.user_id = u))

\* C6: a listing with a user_id value returns the stored appointments of
\* that user and no other; a listing without one returns them all; the
\* store stays as it was.
C6_ListingFiltersByUser ==
    [][\A u \in ListAppointmentsArgs :
          list_appointments(u) =>
              /\ out'.resp.body = IF u = None THEN PublicDocs(appointment) ELSE OfUser(u)
              /\ appointment' = appointment]_vars

\* The answer of a booking: the store was read once, and written once when
\* the answer is an id.
C7_Answer ==
    out.op = "create_appointment" =>
        \/ /\ out.resp.status = 200
           /\ out.calls = <<"appointment.find_one", "appointment.insert_one">>
           /\ \E i \in Slots(appointment) :
                 ObjectIdStr(appointment[i]["_id"]) = out.resp.body.id
        \/ /\ out.resp.status = 400
           /\ out.calls = <<"appointment.find_one">>

\* The steps of a booking: the read writes nothing; the write adds one
\* appointment, whose id it returns; neither touches another collection.
C7_Steps ==
    /\ (Refuses \/ \E c \in Clients : Admits(c)) =>
           UNCHANGED <<appointment, user, order>>
    /\ \A c \in Clients :
           Inserts(c) =>
               /\ Len(appointment') = Len(appointment) + 1
               /\ SubSeq(appointment', 1, Len(appointment)) = appointment
               /\ out'.resp.body.id = ObjectIdStr(appointment'[Len(appointment')]["_id"])
               /\ UNCHANGED <<user, order>>

\* C7: a booking reads the appointment store once and writes it at most
\* once: it ends with one appointment added and that appointment's id
\* returned, or with the conflict error and nothing written, and touches no
\* other collection.
C7_OneReadAtMostOneWrite == []C7_Answer /\ [][C7_Steps]_vars

\* Both outcomes have happened: an appointment is stored and the last
\* booking was refused after its one read.
C7_Witness ==
    /\ Len(appointment) = 1
    /\ Len(user) + Len(order) = 1
    /\ Answered("create_appointment", 400)
    /\ out.calls = <<"appointment.find_one">>

\* C8: a stored appointment is never deleted or modified, and the store
\* grows only by the insert of create_appointment: a step that writes a user
\* or an order, or that answers a checkout, register, login or listing
\* request, leaves it as it is.
C8_AppointmentsOnlyGrow ==
    [][/\ Len(appointment') >= Len(appointment)
       /\ SubSeq(appointment', 1, Len(appointment)) = appointment
       /\ appointment' # appointment => \E c \in Clients : Inserts(c)
       /\ \/ user' # user
          \/ order' # order
          \/ out' # out /\ out'.op # "create_appointment"
          => appointment' = appointment]_vars

\* A user with a stored appointment has checked out.
C8_Witness ==
    /\ Len(appointment) = 1
    /\ Len(order) = 1
    /\ out.op = "create_checkout"
    /\ appointment[1].user_id = out.args.user_id
    /\ appointment[1].order_id = None

\* C9: with register requests run one at a time, no two stored users have
\* the same email.
C9_SerialAtMostOnePerEmail ==
    \A i, j \in Slots(user) : user[i].email = user[j].email => i = j

\* The amount of an item list, item by item.
Total(items) ==
    LET upTo[i \in 0..Len(items)] ==
            IF i = 0 THEN 0
            ELSE upTo[i - 1] + items[i].price_cents * items[i].quantity
    IN upTo[Len(items)]

\* C10: every stored order has amount_cents = sum of price_cents * quantity
\* over its items, status "pending" and no Stripe ids or payment time; the
\* amount returned is the amount stored; no appointment has an order_id.
C10_OrderAmount ==
    /\ \A i \in Slots(order) :
          /\ order[i].amount_cents = Total(order[i].items)
          /\ order[i].status = "pending"
          /\ order[i].stripe_session_id = None
          /\ order[i].stripe_payment_intent = None
          /\ order[i].paid_at = None
    /\ out.op = "create_checkout" =>
          /\ out.resp.body.amount_cents = Total(out.args.items)
          /\ \E i \in Slots(order) :
                /\ ObjectIdStr(order[i]["_id"]) = out.resp.body.order_id
                /\ order[i].items = out.args.items
                /\ order[i].amount_cents = out.resp.body.amount_cents
    /\ \A i \in Slots(appointment) : appointment[i].order_id = None

\* An order without items and an order of one consultation and two therapy
\* sessions are stored.
C10_Witness ==
    /\ \E i \in Slots(order) : order[i].items = <<>> /\ order[i].amount_cents = 0
    /\ \E i \in Slots(order) : Len(order[i].items) = 2 /\ order[i].amount_cents = 33000
    /\ out.op = "create_checkout"

====
